---- MODULE Spec2Model ----
(***************************************************************************)
(* Model of the active-learning iteration engine of al-engine              *)
(* (src/al-engine/src/al_iteration.py).  One project directory is          *)
(* modelled: the immutable unlabeled dataset, the canonical labeled        *)
(* dataset with its per-round backups, and the round-numbered files under  *)
(* outputs/ (voting results, query batches, performance, model).           *)
(*                                                                         *)
(* Every invocation of main() is one atomic step: rounds of one project    *)
(* run one at a time.  An invocation is made with --project_id and from a  *)
(* directory outside /tmp, so that output_dir is the project's outputs/    *)
(* directory (al_iteration.py:268-291).  Feature vectors are finite        *)
(* numbers, abstracted to one integer per row; equal integers stand for    *)
(* equal feature vectors.  Original indices are 0-based as in the source;  *)
(* TLA+ sequences are 1-based, so row i of a dataset is element i+1.       *)
(*                                                                         *)
(* An estimator is the round in which it was fit and the rows it was fit   *)
(* on; a metric value v stands for the float v / MetricScale.  What an     *)
(* invocation meets outside the modelled files (a configuration file that  *)
(* does not parse, the --model_in path, a query batch that does not parse, *)
(* metrics that raise) is an input of the step.                            *)
(***************************************************************************)
EXTENDS Integers, Sequences, FiniteSets, TLC

\* ---------------------------------------------------------------- bounds
MaxRound == 3        \* rounds are numbered 1..MaxRound
NumUnlabeled == 4    \* rows of the original unlabeled dataset
MaxVotes == 2        \* voting results over all voting-result files
MaxBatch == 2        \* largest configured query_batch_size
MetricScale == 1     \* a metric value v stands for the float v / MetricScale
MaxLabeled == 12     \* rows of the largest bootstrap labeled dataset
MaxFeatures == 5     \* feature columns of the widest dataset
MaxSignals == 2      \* start signals written to the signal directory
MaxPolls == 3        \* polls of the service loop that find a signal

Rounds == 1..MaxRound

\* ------------------------------------------------------------- constants
SplitThreshold == 10   \* len(X_labeled) > 10: split; else train = test
CorruptModel == -1     \* stands for a --model_in file that is no artifact
IrisFeatures == 4      \* df.shape[1] > 4: the file has a label column

VARIABLES
    unlabeled,      \* inputs/datasets/unlabeled_samples.csv: features per row
    labeled,        \* inputs/datasets/labeled_samples.csv: rows
    backup,         \* labeled_samples.backup_iter_N.csv, by round N
    voting,         \* outputs/voting_results_round_r.json, by round r
    query,          \* outputs/query_samples_round_N.json, by round N
    performance,    \* outputs/performance_round_N.json, by round N
    model,          \* outputs/model_round_N.pkl, by round N
    config,         \* the parsed configuration file
    output_dir,     \* the outputs/ directory exists
    voting_format_doc, \* VOTING_RESULTS_FORMAT_round_N.md: the path it names
    saved,          \* files of the project directory outside outputs/, which
                    \* the engine does not read
    accumulating,   \* the calls of the accumulator that run step by step,
                    \* and the rows their writes removed from the labeled file
    workflow,       \* run_full_workflow: its loop counter and results
    service,        \* service mode: the signal directory and the loop
    loader,         \* the columns of the dataset files, and what load_data
                    \* returned for them
    last            \* the locals of the most recent invocation of main()

\* The five round-numbered families of files are functions from the round
\* numbers whose file exists to the file's content: r \in DOMAIN voting is
\* voting_results_path.exists().

vars == <<unlabeled, labeled, backup, voting, query, performance, model,
          config, output_dir, voting_format_doc, saved,
          accumulating, workflow, service, loader, last>>

\* ------------------------------------------------------------ sequences
\* range(lo, hi) of Python as an ascending sequence
RECURSIVE PyRange(_, _)
PyRange(lo, hi) == IF lo >= hi THEN <<>> ELSE <<lo>> \o PyRange(lo + 1, hi)

\* ------------------------------------------------------------- datasets
\* sample_vote.get(key) is None: the key is missing (or null) in the entry
Has(v, key) == key \in DOMAIN v

\* str(final_label); the labels of the model are strings already
Str(x) == x

\* df.iloc[i]: position i, counted from the end when i is negative, and an
\* IndexError outside -len .. len-1
ILocInBounds(df, i) == -Len(df) <= i /\ i < Len(df)
ILoc(df, i) == IF i >= 0 THEN df[i + 1] ELSE df[Len(df) + i + 1]

\* gives every row of the loaded unlabeled matrix the position it has in the
\* file (row), which the code does not store: it names the rows of the pool
LoadUnlabeled(unl) == [i \in 1..Len(unl) |-> [row |-> i - 1, features |-> unl[i]]]

\* ------------------------------------------------------------- locations
\* a file location: the directory, as the names from the base directory
\* down, and the file of a round in it
\* base_dir / "al-engine" / "ro-crates" / project_id
ProjectDir == <<"al-engine", "ro-crates", "project_id">>

\* project_dir / "outputs", which is main()'s output_dir
OutputsDir == ProjectDir \o <<"outputs">>

\* Path.parent
Parent(dir) == SubSeq(dir, 1, Len(dir) - 1)

\* where the accumulator looks for the voting results of round r
VotingResultsPath(r) ==
    [dir |-> ProjectDir \o <<"outputs">>, name |-> "voting_results_round",
     round |-> r]

\* where the format document of round N says to save them:
\* {output_dir.parent}/voting_results_round_{N}.json
DocumentedPath(N) ==
    [dir |-> Parent(OutputsDir), name |-> "voting_results_round", round |-> N]

\* --------------------------------------------------------- Dataset Loader
\* the columns of a dataset file are a sequence of column names
FeatureColumns(F) == [i \in 1..F |-> ToString(i)]

\* load_data(filepath, is_labels): the columns of the returned matrix or
\* vector, or ValueError for an extension that is neither .csv nor .npy.
\* `has_labels` says which file the path names; the function does not know it.
load_data(ext, columns, is_labels, has_labels) ==
    IF ext = ".csv"
    THEN IF is_labels
         THEN [raised |-> FALSE, columns |-> <<columns[Len(columns)]>>]
         ELSE IF (\E i \in 1..Len(columns) : columns[i] = "species")
                 \/ Len(columns) > IrisFeatures
         THEN [raised |-> FALSE, columns |-> SubSeq(columns, 1, Len(columns) - 1)]
         ELSE [raised |-> FALSE, columns |-> columns]
    ELSE IF ext = ".npy"
    THEN [raised |-> FALSE, columns |-> columns]
    ELSE [raised |-> TRUE, columns |-> <<>>]

\* ---- data frames: the column names and, row by row, a value per column
\* ("NaN" where the frame has none)
Contains(columns, c) == \E i \in 1..Len(columns) : columns[i] = c

IndexOf(columns, c) == CHOOSE i \in 1..Len(columns) : columns[i] = c

\* the rows of df laid out on `columns`, NaN in the columns df has not
Reindex(df, columns) ==
    [r \in 1..Len(df.rows) |->
        [c \in 1..Len(columns) |->
            IF Contains(df.columns, columns[c])
            THEN df.rows[r][IndexOf(df.columns, columns[c])]
            ELSE "NaN"]]

\* pd.concat([df1, df2], ignore_index=True): the columns of df1 followed
\* by those df2 has beyond them, every row laid out on them
pd_concat(df1, df2) ==
    LET NotInFirst(c) == ~Contains(df1.columns, c)
        columns == df1.columns \o SelectSeq(df2.columns, NotInFirst)
    IN  [columns |-> columns,
         rows |-> Reindex(df1, columns) \o Reindex(df2, columns)]

\* pd.DataFrame([sample_dict]) for one voted sample: the row of the
\* unlabeled file as a dict, then sample_dict['label'] = str(final_label)
NewSamplesFrame(unlabeled_columns) ==
    [columns |-> unlabeled_columns \o <<"label">>,
     rows |-> <<[c \in 1..(Len(unlabeled_columns) + 1) |-> "value"]>>]

\* a labeled file of one row
BootstrapFrame(columns) ==
    [columns |-> columns, rows |-> <<[c \in 1..Len(columns) |-> "value"]>>]

\* nothing loaded yet
NotLoaded == [raised |-> FALSE, columns |-> <<>>]

\* the iris files of the modelled project, which the loader reads as they
\* are meant: four feature columns and the label column `species`
NoLoader ==
    [ext |-> ".csv", F |-> IrisFeatures,
     labeled_columns |-> FeatureColumns(IrisFeatures) \o <<"species">>,
     labeled_df |-> BootstrapFrame(FeatureColumns(IrisFeatures)
                                       \o <<"species">>),
     unlabeled_columns |-> FeatureColumns(IrisFeatures),
     X_labeled |-> NotLoaded, y_labeled |-> NotLoaded, X_unlabeled |-> NotLoaded]

\* ---------------------------------------------------- Label Accumulator
\* the row an entry of a voting file contributes to newly_labeled_samples
VoteSamples(unl, v) ==
    IF Has(v, "original_index") /\ Has(v, "final_label")
    THEN IF v.original_index < Len(unl)
         THEN <<[features |-> ILoc(unl, v.original_index),
                 label |-> Str(v.final_label)]>>
         ELSE <<>>
    ELSE <<>>

\* the entry makes unlabeled_df.iloc[original_index] raise IndexError
VoteRaises(unl, v) ==
    /\ Has(v, "original_index") /\ Has(v, "final_label")
    /\ v.original_index < Len(unl)
    /\ ~ILocInBounds(unl, v.original_index)

RECURSIVE FileSamples(_, _)
FileSamples(unl, file) ==
    IF file = <<>> THEN <<>>
    ELSE VoteSamples(unl, Head(file)) \o FileSamples(unl, Tail(file))

\* a bug: only the voting results of the round just before N are scanned
NewlyLabeledSamplesLastRound(unl, vot, r, N) ==
    IF N - 1 >= r /\ (N - 1) \in DOMAIN vot
    THEN FileSamples(unl, vot[N - 1]) ELSE <<>>

\* newly_labeled_samples after the loop over prev_iteration in range(r, N)
RECURSIVE NewlyLabeledSamples(_, _, _, _)
NewlyLabeledSamples(unl, vot, r, N) ==
    IF r >= N THEN <<>>
    ELSE (IF r \in DOMAIN vot THEN FileSamples(unl, vot[r]) ELSE <<>>)
         \o NewlyLabeledSamples(unl, vot, r + 1, N)

AccumulateRaises(unl, vot, N) ==
    \E r \in (1..(N - 1)) \cap DOMAIN vot :
        \E i \in 1..Len(vot[r]) : VoteRaises(unl, vot[r][i])

\* a bug: the last row of the labeled file is not compared
IsDuplicateSkippingLast(existing_samples, new_sample) ==
    \E i \in 1..(Len(existing_samples) - 1) :
        existing_samples[i].features = new_sample.features

\* new_features == existing_features for some row of the labeled file
IsDuplicate(existing_samples, new_sample) ==
    \E i \in 1..Len(existing_samples) :
        existing_samples[i].features = new_sample.features

TrulyNewSamples(existing_samples, newly_labeled_samples) ==
    SelectSeq(newly_labeled_samples,
              LAMBDA s : ~IsDuplicate(existing_samples, s))

\* a bug: an exception leaves the labeled file emptied
accumulate_truncating(unl, lab, vot, N) ==
    IF AccumulateRaises(unl, vot, N)
    THEN [labeled |-> <<>>, wrote |-> FALSE, newly_added |-> 0]
    ELSE LET truly_new_samples ==
                 TrulyNewSamples(lab, NewlyLabeledSamples(unl, vot, 1, N))
         IN  IF truly_new_samples # <<>>
             THEN [labeled |-> lab \o truly_new_samples, wrote |-> TRUE,
                   newly_added |-> Len(truly_new_samples)]
             ELSE [labeled |-> lab, wrote |-> FALSE, newly_added |-> 0]

\* a bug: the labeled file is overwritten with the new samples alone
accumulate_overwriting(unl, lab, vot, N) ==
    LET truly_new_samples == TrulyNewSamples(lab, NewlyLabeledSamples(unl, vot, 1, N))
    IN  IF AccumulateRaises(unl, vot, N) \/ truly_new_samples = <<>>
        THEN [labeled |-> lab, wrote |-> FALSE, newly_added |-> 0]
        ELSE [labeled |-> truly_new_samples, wrote |-> TRUE,
              newly_added |-> Len(truly_new_samples)]

\* a bug: the backup is taken after the append
BackupOfUpdated(labeled_df, updated_labeled_df) == updated_labeled_df

\* labeled_df.to_csv(backup_path): the backup holds the rows read from the
\* labeled file at the start of the call
BackupFile(labeled_df, updated_labeled_df) == labeled_df

\* accumulate_newly_labeled_samples: the labeled file after the call, whether
\* the backup and the labeled file were written, and the returned count
accumulate_newly_labeled_samples(unl, lab, vot, N) ==
    LET newly_labeled_samples == NewlyLabeledSamples(unl, vot, 1, N)
        truly_new_samples == TrulyNewSamples(lab, newly_labeled_samples)
    IN  IF AccumulateRaises(unl, vot, N)
        THEN [labeled |-> lab, wrote |-> FALSE, newly_added |-> 0]
        ELSE IF truly_new_samples # <<>>
        THEN [labeled |-> lab \o truly_new_samples, wrote |-> TRUE,
              newly_added |-> Len(truly_new_samples)]
        ELSE [labeled |-> lab, wrote |-> FALSE, newly_added |-> 0]

\* ---- the accumulator step by step, for calls that run at the same time
\* a call that has not started
Idle == [pc |-> "idle", labeled_df |-> <<>>, truly_new_samples |-> <<>>]

\* the rounds whose accumulator has work: above 1
AccumulatingRounds == 2..MaxRound

NotAccumulating == [proc |-> [R \in AccumulatingRounds |-> Idle], dropped |-> {}]

\* the rows of a file
Rows(file) == {file[i] : i \in 1..Len(file)}

\* ---- the engine's loops (engine.py)
\* run_full_workflow has not been called
NoWorkflow ==
    [pc |-> "idle", iteration |-> 0, max_iterations |-> 0, started |-> <<>>,
     results |-> <<>>]

\* no start signal has been read: _check_for_start_signal returned None
NoSignal == [ctime |-> 0, iteration |-> 0, content |-> "none"]

\* the engine is not in service mode; the fields are the signal directory
\* (signals: the start_iteration_*.json files, result_files: the
\* iteration_{n}_result.json files by n), the locals of the loop
\* (start_signal, result) and the history of what the loop did, by the
\* ctime of the signal it did it for
NoService ==
    [running |-> FALSE, pc |-> "idle", signals |-> {}, arrived |-> 0,
     start_signal |-> NoSignal, result |-> [success |-> FALSE],
     result_files |-> <<>>, read |-> <<>>, executed |-> <<>>,
     written |-> <<>>, removed |-> <<>>]

\* ------------------------------------------------- Pool Index Reconciler
\* a bug: only the query batch of the round just before N is excluded
QueriedIndicesLastRound(qry, N) ==
    IF (N - 1) \in DOMAIN qry
    THEN {qry[N - 1][i].original_index : i \in 1..Len(qry[N - 1])} ELSE {}

\* queried_indices after the loop over prev_iteration in range(1, N)
QueriedIndices(qry, N) ==
    UNION {{qry[r][i].original_index : i \in 1..Len(qry[r])} :
              r \in (1..(N - 1)) \cap DOMAIN qry}

AvailableIndices(n, queried_indices) ==
    SelectSeq(PyRange(0, n), LAMBDA i : i \notin queried_indices)

\* a bug: the mapping is built but the pool is not sliced
SliceNothing(X, indices) == X

\* X_unlabeled[available_indices]
Slice(X, indices) == [p \in 1..Len(indices) |-> X[indices[p] + 1]]

\* the working pool and original_index_mapping (position p of the pool is
\* element p + 1 of both sequences)
Reconcile(X, qry, N, final_training) ==
    LET queried_indices == QueriedIndices(qry, N)
        available_indices == AvailableIndices(Len(X), queried_indices)
    IN  IF N > 1 /\ ~final_training /\ queried_indices # {}
        THEN [X_unlabeled |-> Slice(X, available_indices),
              original_index_mapping |-> available_indices]
        ELSE [X_unlabeled |-> X,
              original_index_mapping |-> PyRange(0, Len(X))]

\* -------------------------------------------------------- Query Selector
Injective(s) == \A i, j \in 1..Len(s) : i # j => s[i] # s[j]

\* a bug: the selector may return a position more than once
QueryResultsWithRepeats(n, n_instances) == [1..n_instances -> 0..(n - 1)]

\* learner.query(X_unlabeled, n_instances): n_instances distinct positions
\* of the pool, in the order the library returns them; it raises when the
\* pool has fewer rows than n_instances
QueryResults(n, n_instances) ==
    {s \in [1..n_instances -> 0..(n - 1)] : Injective(s)}

\* the first n_instances positions of the pool, in order
FirstPositions(n, n_instances) == [i \in 1..n_instances |-> i - 1]

\* the results of learner.query that an invocation may see
LearnerQuery(first_only, n, n_instances) ==
    {s \in QueryResults(n, n_instances) :
        first_only => s = FirstPositions(n, n_instances)}

\* a bug: the positions in the working pool are persisted as they are
OutputDataUnmapped(X, original_index_mapping, query_indices) ==
    [i \in 1..Len(query_indices) |->
        [features |-> X[query_indices[i] + 1].features,
         original_index |-> query_indices[i]]]

\* output_data: the queried rows with their mapped original indices
OutputData(X, original_index_mapping, query_indices) ==
    [i \in 1..Len(query_indices) |->
        [features |-> X[query_indices[i] + 1].features,
         original_index |-> original_index_mapping[query_indices[i] + 1]]]

\* -------------------------------------------------- Pool Index Reconciler
\* a bug: the pool stays filtered when computing the exclusion set raises
FilterPoolKeepingSlice(X, qry, N, final_training, unreadable) ==
    LET rec == Reconcile(X, qry, N, final_training)
    IN  [X_unlabeled |-> rec.X_unlabeled,
         original_index_mapping |-> PyRange(0, Len(X)),
         raised |-> unreadable /\ N > 1 /\ ~final_training
                    /\ \E r \in DOMAIN qry : r < N]

\* the try/except around the filter: json.load of an existing prior query
\* file that cannot be parsed raises before X_unlabeled is sliced, and the
\* handler maps the full dataset onto itself
FilterPool(X, qry, N, final_training, unreadable) ==
    LET raises == unreadable /\ N > 1 /\ ~final_training
                  /\ \E r \in DOMAIN qry : r < N
        rec == Reconcile(X, qry, N, final_training)
    IN  IF raises
        THEN [X_unlabeled |-> X,
              original_index_mapping |-> PyRange(0, Len(X)),
              raised |-> TRUE]
        ELSE [X_unlabeled |-> rec.X_unlabeled,
              original_index_mapping |-> rec.original_index_mapping,
              raised |-> FALSE]

\* a bug: the filtered pool is saved over the unlabeled dataset
UnlabeledFileFiltered(unl, X_unlabeled) ==
    [p \in 1..Len(X_unlabeled) |-> X_unlabeled[p].features]

\* the unlabeled dataset file after an invocation: X_unlabeled is rebound
\* in memory, and nothing is written to args.unlabeled_data
UnlabeledFile(unl, X_unlabeled) == unl

\* a bug: the labeled dataset is loaded before the accumulation
LoadLabeledBefore(before, after) == before

\* load_data(args.labeled_data) and load_data(args.labeled_labels), which
\* follow the accumulator call: the rows of the labeled file as the
\* accumulator left it
LoadLabeled(before, after) == after

\* ------------------------------------------------- Model Trainer/Updater
\* a bug: the test rows rounded down
TestRowsFloor(n) == n \div 5

\* ceil(0.2 * n): the test rows train_test_split takes with test_size=0.2
TestRows(n) == (n + 4) \div 5

\* the labels of the rows of y
UniqueLabels(y) == {y[i].label : i \in 1..Len(y)}

\* the rows of y that carry label l
CountLabel(y, l) == Cardinality({i \in 1..Len(y) : y[i].label = l})

\* train_test_split(..., test_size=0.2, stratify=y_labeled) raises
\* ValueError when a class has one member, or when the test or the train
\* part has fewer rows than there are classes
SplitRaises(lab) ==
    /\ Len(lab) > SplitThreshold
    /\ \/ \E l \in UniqueLabels(lab) : CountLabel(lab, l) < 2
       \/ TestRows(Len(lab)) < Cardinality(UniqueLabels(lab))
       \/ Len(lab) - TestRows(Len(lab)) < Cardinality(UniqueLabels(lab))

\* the train and the test part of the labeled set: a split above
\* SplitThreshold rows, the full set for both otherwise
TrainTestSplit(lab) ==
    IF Len(lab) > SplitThreshold
    THEN [train |-> SubSeq(lab, 1, Len(lab) - TestRows(Len(lab))),
          test |-> SubSeq(lab, Len(lab) - TestRows(Len(lab)) + 1, Len(lab))]
    ELSE [train |-> lab, test |-> lab]

\* no estimator: the invocation ended before one was made
NoEstimator == [round |-> 0, fit_on |-> <<>>]

\* ActiveLearner(estimator=get_model(config), X_training, y_training): an
\* estimator fit in round N on the train split
Fit(N, X_train) == [round |-> N, fit_on |-> X_train]

\* a bug: a --model_in path is loaded whether or not the file exists
ModelInGiven(mdl, model_in) == TRUE

\* args.model_in and Path(args.model_in).exists().  model_in is 0 without
\* --model_in, r for the path of model_round_r.pkl, and CorruptModel for the
\* path of an existing file that joblib.load cannot deserialize
ModelInExists(mdl, model_in) == model_in = CorruptModel \/ model_in \in DOMAIN mdl

\* a bug: the imported estimator is dropped for the one fit in this round
RefitEstimator(mdl, model_in, fresh) == fresh

\* learner.estimator = joblib.load(args.model_in): the imported estimator
\* takes the place of the one the ActiveLearner has just fit
LoadedEstimator(mdl, model_in, fresh) == mdl[model_in]

\* -------------------------------------------------------------- Evaluator
\* the labels that are digits only, and the numpy integers they are read as
NumericLabels == {"0", "1"}
NpInt64 == [l \in NumericLabels |-> IF l = "0" THEN "np.int64(0)"
                                    ELSE "np.int64(1)"]

\* pd.read_csv reads a label column of digit strings as int64
NumericColumn(y) == y # <<>> /\ UniqueLabels(y) \subseteq NumericLabels

\* list(np.unique(y_test)): numpy integers for an int64 column, strings
\* otherwise
NpUnique(y) ==
    IF NumericColumn(y) THEN {NpInt64[l] : l \in UniqueLabels(y)}
    ELSE UniqueLabels(y)

\* 'weighted' if len(np.unique(y_test)) > 2 else 'binary'
AverageStrategy(y_test) ==
    IF Cardinality(UniqueLabels(y_test)) > 2 THEN "weighted" ELSE "binary"

\* a bug: no handler around the metrics, and the metrics as they come
evaluate_unguarded(raises, scores, y_test, cfg, y_train) ==
    [accuracy |-> scores.accuracy, precision |-> scores.precision,
     recall |-> scores.recall, f1_score |-> scores.f1_score,
     test_samples |-> Len(y_test), training_samples |-> Len(y_train),
     label_space |-> {}, average_strategy |-> "binary",
     timestamp |-> "time.time()", iso_timestamp |-> "time.strftime()"]

\* a bug: the metrics reported as percentages
evaluate_percent(raises, scores, y_test, cfg, y_train) ==
    [accuracy |-> 100 * scores.accuracy, precision |-> 100 * scores.precision,
     recall |-> 100 * scores.recall, f1_score |-> 100 * scores.f1_score,
     test_samples |-> Len(y_test), training_samples |-> Len(y_train),
     label_space |-> {}, average_strategy |-> AverageStrategy(y_test),
     timestamp |-> "time.time()", iso_timestamp |-> "time.strftime()"]

\* evaluate_model_performance: the metrics of the learner on the test set,
\* or the zeroed metrics with the error string when computing them raises.
\* The two time stamps are the clock's; the model keeps their keys.
evaluate_model_performance(raises, scores, y_test, cfg, y_train) ==
    IF raises
    THEN [accuracy |-> 0, precision |-> 0, recall |-> 0, f1_score |-> 0,
          test_samples |-> Len(y_test), error |-> "str(e)",
          timestamp |-> "time.time()", iso_timestamp |-> "time.strftime()"]
    ELSE [accuracy |-> scores.accuracy, precision |-> scores.precision,
          recall |-> scores.recall, f1_score |-> scores.f1_score,
          test_samples |-> Len(y_test),
          training_samples |-> Len(y_train),
          label_space |-> IF Has(cfg, "label_space") THEN cfg.label_space
                          ELSE NpUnique(y_test),
          average_strategy |-> AverageStrategy(y_test),
          timestamp |-> "time.time()", iso_timestamp |-> "time.strftime()"]

\* a bug: the output directory is made before the configuration is parsed
DoneAfterMkdir(failed) ==
    IF failed = "config" THEN {"mkdir"}
    ELSE IF failed \in {"split", "model_in", "query"}
         THEN {"mkdir", "accumulate", "load"}
    ELSE IF failed = "performance"
         THEN {"mkdir", "accumulate", "load", "query"}
    ELSE {"mkdir", "accumulate", "load", "query", "performance", "model"}

\* the steps of main() that an invocation has gone through when it ends at
\* the step `failed` (or at the end, with failed = ""): parse_config raises
\* before output_dir.mkdir; train_test_split, joblib.load and learner.query
\* raise after the
\* accumulation and the loading of the datasets and before the first output
\* is written; json.dump of the metrics raises after the query batch is
\* written.  "query" is the query step of a round that has one.
Done(failed) ==
    IF failed = "config" THEN {}
    ELSE IF failed \in {"split", "model_in", "query"}
         THEN {"mkdir", "accumulate", "load"}
    ELSE IF failed = "performance"
         THEN {"mkdir", "accumulate", "load", "query"}
    ELSE {"mkdir", "accumulate", "load", "query", "performance", "model"}

\* a bug: a batch is selected and persisted in final-training mode too
SelectsAlways(final_training, failed) == failed \in {"", "performance"}

\* `if not args.final_training:` around the query step, in an invocation
\* that gets as far as the step and through it
Selects(final_training, failed) ==
    ~final_training /\ failed \in {"", "performance"}

\* ------------------------------------------------------ Artifact Persister
\* json.dump raises TypeError on a numpy integer: the label_space that
\* np.unique made of an int64 label column
JsonSerializable(metrics) ==
    Has(metrics, "label_space") =>
        metrics.label_space \cap {NpInt64[l] : l \in NumericLabels} = {}

\* what json.dump leaves of performance_round_N.json when it raises: the
\* keys before label_space, no closing brace
TruncatedJson == [truncated |-> TRUE]

\* ---------------------------------------------------------------- inputs
\* the unlabeled dataset: its last two rows carry the same feature vector
UnlabeledDataset ==
    [i \in 1..NumUnlabeled |-> IF i = NumUnlabeled /\ i > 1 THEN i - 1 ELSE i]

\* the bootstrap labeled dataset: one feature vector that no unlabeled row
\* has, and the feature vector of unlabeled row 0
BootstrapLabeled ==
    <<[features |-> 0, label |-> "a"], [features |-> 1, label |-> "b"]>>

\* original_index values of voting results: every row, the first index past
\* the end, and negative ones inside and outside -len .. -1
VoteIndices == (0..NumUnlabeled) \cup {-1, -(NumUnlabeled + 1)}

VoteEntries ==
    {[original_index |-> i, final_label |-> "a"] : i \in VoteIndices}
    \cup {[original_index |-> 0], [final_label |-> "a"]}

\* the number of entries of the voting files written so far
RECURSIVE VotesTotal(_, _)
VotesTotal(vot, r) ==
    IF r = 0 THEN 0
    ELSE (IF r \in DOMAIN vot THEN Len(vot[r]) ELSE 0) + VotesTotal(vot, r - 1)

\* voting results that name a row of the unlabeled dataset, with either
\* label
InRangeVotes ==
    {[original_index |-> i, final_label |-> l] :
        i \in 0..(NumUnlabeled - 1), l \in {"a", "b"}}

\* a bootstrap labeled dataset whose label column holds digits only
BootstrapNumeric ==
    <<[features |-> 0, label |-> "0"], [features |-> 1, label |-> "1"]>>

\* a label_space of the configuration file
ConfigLabelSpace == {"a", "b"}

\* the four metrics sklearn computes, for classifiers from one that gets
\* every test row wrong to one that gets every test row right
Scores ==
    {[accuracy |-> v, precision |-> v, recall |-> v, f1_score |-> v] :
        v \in 0..MetricScale}

\* an invocation without --model_in on a valid configuration file, with
\* readable query batches and metrics that sklearn computes
Nominal ==
    [config_valid |-> TRUE, model_in |-> 0, query_unreadable |-> FALSE,
     metrics_raise |-> FALSE,
     scores |-> [accuracy |-> MetricScale, precision |-> MetricScale,
                 recall |-> MetricScale, f1_score |-> MetricScale]]

\* what an invocation meets: whether --config names a file json.load
\* accepts, the --model_in path, whether a prior query file fails to parse,
\* whether computing the metrics raises, and the metrics otherwise.  One of
\* them at a time differs from the nominal invocation.
Environments ==
    {[Nominal EXCEPT !.config_valid = b] : b \in BOOLEAN}
    \cup {[Nominal EXCEPT !.model_in = m] : m \in {CorruptModel} \cup Rounds}
    \cup {[Nominal EXCEPT !.query_unreadable = TRUE],
          [Nominal EXCEPT !.metrics_raise = TRUE]}
    \cup {[Nominal EXCEPT !.scores = s] : s \in Scores}

\* the invocations that reach the evaluation on a valid configuration and
\* without --model_in
EvaluateEnvironments ==
    {env \in Environments :
        env.config_valid /\ env.model_in = 0 /\ ~env.query_unreadable}

\* the labels of a bootstrap labeled dataset of n rows: of one class, of
\* two, of three, and of two with a third that one row carries
LabelPatterns == {"one", "two", "three", "rare"}

PatternLabel(pattern, i) ==
    IF pattern = "one" THEN "a"
    ELSE IF pattern = "two" THEN (IF i % 2 = 1 THEN "a" ELSE "b")
    ELSE IF pattern = "three"
         THEN (IF i % 3 = 1 THEN "a" ELSE IF i % 3 = 2 THEN "b" ELSE "c")
    ELSE (IF i = 1 THEN "c" ELSE IF i % 2 = 1 THEN "a" ELSE "b")

\* bootstrap rows have feature vectors of their own, none of an unlabeled row
LabeledSets ==
    {[i \in 1..n |-> [features |-> -i, label |-> PatternLabel(pattern, i)]] :
        n \in 1..MaxLabeled, pattern \in LabelPatterns}

\* names of the label column, and file extensions
LabelColumnNames == {"species", "label", "target"}
Extensions == {".csv", ".npy", ".json"}

\* a labeled file with F feature columns and a label column, and an
\* unlabeled file with the same F feature columns
DatasetFiles ==
    {[ext |-> ext, F |-> F,
      labeled_columns |-> FeatureColumns(F) \o <<name>>,
      labeled_df |-> BootstrapFrame(FeatureColumns(F) \o <<name>>),
      unlabeled_columns |-> FeatureColumns(F),
      X_labeled |-> NotLoaded, y_labeled |-> NotLoaded,
      X_unlabeled |-> NotLoaded] :
        ext \in Extensions, F \in 1..MaxFeatures, name \in LabelColumnNames}

NoInvocation ==
    [iteration |-> 0, final_training |-> FALSE, newly_added |-> 0,
     X_unlabeled |-> <<>>, original_index_mapping |-> <<>>,
     query_indices |-> <<>>, completed |-> FALSE,
     X_labeled |-> <<>>, X_train |-> <<>>, X_test |-> <<>>,
     failed |-> "", accumulate_raised |-> FALSE, filter_raised |-> FALSE,
     model_in |-> 0, warm_start |-> FALSE, estimator |-> NoEstimator,
     metrics_raised |-> FALSE]

Init ==
    /\ unlabeled = UnlabeledDataset
    /\ labeled = BootstrapLabeled
    /\ backup = <<>>
    /\ voting = <<>>
    /\ query = <<>>
    /\ performance = <<>>
    /\ model = <<>>
    /\ config \in [query_batch_size : 1..MaxBatch]
    /\ output_dir = FALSE
    /\ loader = NoLoader
    /\ voting_format_doc = <<>>
    /\ saved = <<>>
    /\ accumulating = NotAccumulating
    /\ workflow = NoWorkflow
    /\ service = NoService
    /\ last = NoInvocation

\* --------------------------------------------------------------- actions
\* The voting process (outside the engine) writes voting_results_round_r.json
\* once: a VotingResult file is read-only input of the engine.  The files of
\* rounds below MaxRound are the ones a modelled round reads.
SubmitVotes(r, file) ==
    /\ r \notin DOMAIN voting
    /\ voting' = (r :> file) @@ voting
    /\ UNCHANGED <<unlabeled, labeled, backup, query, performance, model,
                   config, output_dir, voting_format_doc, saved,
                   accumulating, workflow, service, loader,
                   last>>

\* any voting results at all, well-formed JSON entries with or without the
\* two keys the engine reads
SubmitAnyVotes(r) ==
    \E n \in 1..(MaxVotes - VotesTotal(voting, MaxRound)) :
        \E file \in [1..n -> VoteEntries] : SubmitVotes(r, file)

\* the voters label exactly the samples of round r's query batch
BatchVotes(batch) ==
    [i \in 1..Len(batch) |->
        [original_index |-> batch[i].original_index, final_label |-> "a"]]

SubmitBatchVotes(r) ==
    /\ r \in DOMAIN query
    /\ SubmitVotes(r, BatchVotes(query[r]))

\* main(): one invocation for round N.  With first_only the learner returns the first
\* positions of the pool; otherwise any result learner.query may return.
\* env holds what the invocation meets outside the modelled files: see
\* Environments.  The steps are those of main() in its order; the first one
\* that raises ends the invocation, and what was written before stays.
\* (A bound variable over a one-element set is a local computed once.)
main(N, final_training, first_only, env) ==
    /\ UNCHANGED <<voting, config, saved, accumulating, loader>>
    /\ \E acc \in {IF N > 1 /\ ~final_training
                   THEN accumulate_newly_labeled_samples(unlabeled, labeled,
                                                         voting, N)
                   ELSE [labeled |-> labeled, wrote |-> FALSE,
                         newly_added |-> 0]},
          rec \in {FilterPool(LoadUnlabeled(unlabeled), query, N,
                              final_training, env.query_unreadable)} :
       \E X_labeled \in {LoadLabeled(labeled, acc.labeled)} :
       \E split \in {TrainTestSplit(X_labeled)} :
       LET warm_start == env.model_in # 0 /\ ModelInExists(model, env.model_in)
           estimator == IF warm_start /\ env.model_in \in DOMAIN model
                        THEN LoadedEstimator(model, env.model_in,
                                             Fit(N, split.train))
                        ELSE Fit(N, split.train)
           performance_metrics ==
               [final_training |-> final_training] @@
               evaluate_model_performance(env.metrics_raise, env.scores,
                                          split.test, config, split.train)
           n_queries == config.query_batch_size
       IN
       \E failed \in {IF ~env.config_valid THEN "config"
                      ELSE IF SplitRaises(X_labeled) THEN "split"
                      ELSE IF warm_start /\ env.model_in \notin DOMAIN model
                           THEN "model_in"
                      ELSE IF ~final_training /\ Len(rec.X_unlabeled) < n_queries
                           THEN "query"
                      ELSE IF ~JsonSerializable(performance_metrics)
                           THEN "performance"
                      ELSE ""} :
       LET selects == Selects(final_training, failed)
           locals == [iteration |-> N, final_training |-> final_training,
                      newly_added |-> acc.newly_added,
                      X_unlabeled |-> rec.X_unlabeled,
                      original_index_mapping |-> rec.original_index_mapping,
                      query_indices |-> <<>>, completed |-> failed = "",
                      X_labeled |-> X_labeled,
                      X_train |-> split.train, X_test |-> split.test,
                      failed |-> failed,
                      accumulate_raised |->
                          /\ N > 1 /\ ~final_training
                          /\ AccumulateRaises(unlabeled, voting, N),
                      filter_raised |-> rec.raised,
                      model_in |-> env.model_in,
                      warm_start |-> warm_start,
                      estimator |-> estimator,
                      metrics_raised |-> env.metrics_raise]
           done == Done(failed)
       IN  /\ output_dir' = (output_dir \/ "mkdir" \in done)
           /\ unlabeled' = IF "load" \in done
                            THEN UnlabeledFile(unlabeled, rec.X_unlabeled)
                            ELSE unlabeled
           /\ labeled' = IF "accumulate" \in done THEN acc.labeled ELSE labeled
           /\ backup' = IF "accumulate" \in done /\ acc.wrote
                        THEN (N :> BackupFile(labeled, acc.labeled)) @@ backup
                        ELSE backup
           /\ \E query_indices \in
                     IF selects
                     THEN LearnerQuery(first_only, Len(rec.X_unlabeled),
                                       n_queries)
                     ELSE {<<>>} :
                  /\ query' = IF selects
                              THEN (N :> OutputData(rec.X_unlabeled,
                                            rec.original_index_mapping,
                                            query_indices)) @@ query
                              ELSE query
                  /\ last' = IF "load" \in done
                             THEN [locals EXCEPT !.query_indices = query_indices]
                             ELSE [NoInvocation EXCEPT
                                      !.iteration = N,
                                      !.final_training = final_training,
                                      !.failed = failed]
           /\ performance' =
                  IF "performance" \in done
                  THEN (N :> performance_metrics) @@ performance
                  ELSE IF failed = "performance"
                  THEN (N :> TruncatedJson) @@ performance
                  ELSE performance
           /\ model' = IF "model" \in done THEN (N :> estimator) @@ model
                       ELSE model
           /\ voting_format_doc' =
                  IF "model" \in done /\ ~final_training
                  THEN (N :> DocumentedPath(N)) @@ voting_format_doc
                  ELSE voting_format_doc

\* The labeling process saves the votes on round r's batch where round r's
\* format document says: a file the accumulator reads when that is its
\* path, and a file elsewhere in the project directory otherwise.
SaveAsDocumented(r) ==
    /\ r \in DOMAIN voting_format_doc
    /\ r \in DOMAIN query
    /\ voting_format_doc[r] \notin DOMAIN saved
    /\ IF voting_format_doc[r] = VotingResultsPath(r)
       THEN /\ r \notin DOMAIN voting
            /\ voting' = (r :> BatchVotes(query[r])) @@ voting
            /\ saved' = saved
       ELSE /\ saved' = (voting_format_doc[r] :> BatchVotes(query[r])) @@ saved
            /\ voting' = voting
    /\ UNCHANGED <<unlabeled, labeled, backup, query, performance, model,
                   config, output_dir, voting_format_doc, accumulating, workflow,
                   service, loader,
                   last>>

\* the invocations of a project as its rounds follow one another: round
\* numbers do not decrease, and nothing runs after the final-training round
Invocation(N, final_training, first_only, env) ==
    /\ N \in {last.iteration, last.iteration + 1}
    /\ ~last.final_training
    /\ main(N, final_training, first_only, env)
    /\ UNCHANGED <<workflow, service>>

\* a non-final round of any number, run whatever ran before: the server
\* takes the round number from the request and checks it against nothing
AnyRound(N) ==
    /\ main(N, FALSE, FALSE, Nominal)
    /\ UNCHANGED <<workflow, service>>

\* a bug: the newest artifact of the outputs directory is passed
ModelFileLatest(mdl, iteration_number) ==
    IF iteration_number > 1 /\ DOMAIN mdl # {}
    THEN CHOOSE r \in DOMAIN mdl : \A s \in DOMAIN mdl : s <= r
    ELSE 0

\* _run_fallback_iteration's --model_in: model_round_{N-1}.pkl for a round
\* above 1 when that file exists
ModelFile(mdl, iteration_number) ==
    IF iteration_number > 1 /\ (iteration_number - 1) \in DOMAIN mdl
    THEN iteration_number - 1 ELSE 0

\* _run_fallback_iteration: a non-final invocation, any selection
RunFallbackIteration(N) ==
    \E b \in BOOLEAN :
        Invocation(N, FALSE, FALSE,
                   [Nominal EXCEPT !.model_in = ModelFile(model, N),
                                   !.config_valid = b])

\* _run_final_training_iteration: the same with --final_training
RunFinalTrainingIteration(N) ==
    \E b \in BOOLEAN :
        Invocation(N, TRUE, FALSE,
                   [Nominal EXCEPT !.model_in = ModelFile(model, N),
                                   !.config_valid = b])

\* main()'s three calls of load_data (al_iteration.py:318-320), each on the
\* file its argument names
LoadLabeledFeatures ==
    /\ loader' = [loader EXCEPT !.X_labeled =
                      load_data(loader.ext, loader.labeled_columns, FALSE, TRUE)]
    /\ UNCHANGED <<unlabeled, labeled, backup, voting, query, performance,
                   model, config, output_dir, voting_format_doc, saved,
                   accumulating, workflow, service, last>>

LoadLabels ==
    /\ loader' = [loader EXCEPT !.y_labeled =
                      load_data(loader.ext, loader.labeled_columns, TRUE, TRUE)]
    /\ UNCHANGED <<unlabeled, labeled, backup, voting, query, performance,
                   model, config, output_dir, voting_format_doc, saved,
                   accumulating, workflow, service, last>>

LoadUnlabeledFeatures ==
    /\ loader' = [loader EXCEPT !.X_unlabeled =
                      load_data(loader.ext, loader.unlabeled_columns, FALSE,
                                FALSE)]
    /\ UNCHANGED <<unlabeled, labeled, backup, voting, query, performance,
                   model, config, output_dir, voting_format_doc, saved,
                   accumulating, workflow, service, last>>

\* the accumulator's append of one voted sample, on the columns of the
\* files (al_iteration.py:176-184, 224-232): labeled_samples.csv is
\* rewritten with the concatenated frame
AppendSample ==
    /\ loader.ext = ".csv"
    /\ Len(loader.labeled_df.rows) <= MaxVotes
    /\ \E updated_labeled_df \in
             {pd_concat(loader.labeled_df,
                        NewSamplesFrame(loader.unlabeled_columns))} :
           loader' = [loader EXCEPT !.labeled_df = updated_labeled_df,
                                    !.labeled_columns = updated_labeled_df.columns]
    /\ UNCHANGED <<unlabeled, labeled, backup, voting, query, performance,
                   model, config, output_dir, voting_format_doc, saved,
                   accumulating, workflow, service, last>>

\* The accumulator of round R in four steps, each one access to the
\* labeled file or its backup.
\* labeled_df = pd.read_csv(labeled_data_path)  (line 158)
ReadLabeledFile(R) ==
    /\ accumulating.proc[R].pc = "idle"
    /\ accumulating' =
           [accumulating EXCEPT !.proc[R] =
               [pc |-> "scan", labeled_df |-> labeled,
                truly_new_samples |-> <<>>]]
    /\ UNCHANGED <<unlabeled, labeled, backup, voting, query, performance,
                   model, config, output_dir, voting_format_doc, saved, workflow,
                   service, loader, last>>

\* the scan of the voting results of rounds 1..R-1 and the duplicate filter
\* against existing_df = pd.read_csv(labeled_data_path), a second read
\* (lines 161-222); an exception or no new sample ends the call
ScanVotingResults(R) ==
    /\ accumulating.proc[R].pc = "scan"
    /\ \E truly_new_samples \in
             {IF AccumulateRaises(unlabeled, voting, R) THEN <<>>
              ELSE TrulyNewSamples(labeled,
                       NewlyLabeledSamples(unlabeled, voting, 1, R))} :
           accumulating' =
               [accumulating EXCEPT !.proc[R] =
                   [pc |-> IF truly_new_samples = <<>> THEN "done"
                           ELSE "backup",
                    labeled_df |-> @.labeled_df,
                    truly_new_samples |-> truly_new_samples]]
    /\ UNCHANGED <<unlabeled, labeled, backup, voting, query, performance,
                   model, config, output_dir, voting_format_doc, saved, workflow,
                   service, loader, last>>

\* labeled_df.to_csv(backup_path)  (line 231)
WriteBackup(R) ==
    /\ accumulating.proc[R].pc = "backup"
    /\ backup' = (R :> accumulating.proc[R].labeled_df) @@ backup
    /\ accumulating' = [accumulating EXCEPT !.proc[R].pc = "write"]
    /\ UNCHANGED <<unlabeled, labeled, voting, query, performance, model,
                   config, output_dir, voting_format_doc, saved, workflow,
                   service, loader, last>>

\* updated_labeled_df.to_csv(labeled_data_path)  (lines 227, 232): the rows
\* read at the start of the call and the new ones replace the file
WriteLabeled(R) ==
    /\ accumulating.proc[R].pc = "write"
    /\ labeled' = accumulating.proc[R].labeled_df
                      \o accumulating.proc[R].truly_new_samples
    /\ accumulating' =
           [accumulating EXCEPT !.proc[R].pc = "done",
                                !.dropped = @ \cup (Rows(labeled) \ Rows(labeled'))]
    /\ UNCHANGED <<unlabeled, backup, voting, query, performance, model,
                   config, output_dir, voting_format_doc, saved, workflow,
                   service, loader, last>>

\* a round that runs when no accumulator is between two steps
RoundAlone(M, final_training) ==
    /\ \A R \in AccumulatingRounds :
           accumulating.proc[R].pc \in {"idle", "done"}
    /\ main(M, final_training, TRUE, Nominal)
    /\ UNCHANGED <<workflow, service>>

\* the test that ends run_full_workflow's loop after a returned result:
\* result.get('empty_query_set', False), a key no result of the engine has
BreaksAfter(result) ==
    Has(result, "empty_query_set") /\ result.empty_query_set

\* what an iteration of the workflow meets: a subprocess that runs through,
\* or one that fails on its configuration file
WorkflowEnvironments == {Nominal, [Nominal EXCEPT !.config_valid = FALSE]}

\* run_iteration(iteration) inside run_full_workflow's loop: the
\* subprocess runs main() and its exit status becomes the success field of
\* the returned result (_run_local_iteration); the loop appends the result
\* and goes on to the next iteration unless BreaksAfter
RunIterationReturns(iteration) ==
    /\ workflow.pc = "running"
    /\ iteration = workflow.iteration
    /\ \E env \in WorkflowEnvironments : main(iteration, FALSE, TRUE, env)
    /\ \E result \in {[success |-> last'.completed,
                        execution_method |-> "cwltool"]} :
           workflow' =
               [workflow EXCEPT
                   !.started = Append(@, iteration),
                   !.results = Append(@, result),
                   !.iteration = iteration + 1,
                   !.pc = IF BreaksAfter(result)
                             \/ iteration = workflow.max_iterations
                          THEN "done" ELSE "running"]
    /\ UNCHANGED service

\* run_iteration(iteration) raises (writing the iteration's configuration
\* file, or in the fallback runner): the loop logs and breaks
RunIterationRaises(iteration) ==
    /\ workflow.pc = "running"
    /\ iteration = workflow.iteration
    /\ workflow' = [workflow EXCEPT !.started = Append(@, iteration),
                                    !.pc = "done"]
    /\ UNCHANGED <<unlabeled, labeled, backup, voting, query, performance,
                   model, config, output_dir, voting_format_doc, saved,
                   accumulating, service, loader, last>>

\* ---- service mode (engine.py, start_service_mode)
\* what a start_iteration_*.json file can hold: a JSON object with the key
\* 'iteration', a JSON object without it, or text json.load rejects
SignalContents == {"iteration", "no_iteration", "corrupted"}

\* min(signal_files, key=os.path.getctime)
OldestSignal(signal_files) ==
    CHOOSE s \in signal_files : \A o \in signal_files : s.ctime <= o.ctime

\* the files of the model that service-mode steps other than the
\* execution of an iteration leave alone
UnchangedByService ==
    UNCHANGED <<unlabeled, labeled, backup, voting, query, performance,
                model, config, output_dir, voting_format_doc, saved,
                accumulating, workflow, loader, last>>

\* the DAL writes a start signal file into the signal directory
SendStartSignal(n, content) ==
    /\ service.pc # "idle"
    /\ service.arrived < MaxSignals
    /\ service' =
           [service EXCEPT
               !.arrived = @ + 1,
               !.signals = @ \cup {[ctime |-> service.arrived + 1,
                                    iteration |->
                                        IF content = "iteration"
                                        THEN n ELSE 0,
                                    content |-> content]}]
    /\ UnchangedByService

\* one pass of the service loop up to the execution: the call of
\* _check_for_start_signal and the read of start_signal['iteration'].
\* A file json.load rejects is unlinked and None is returned; a signal
\* without the key raises KeyError, which the loop's handler logs before
\* the next pass; otherwise the iteration is about to be executed
CheckForStartSignal ==
    /\ service.running
    /\ service.pc = "check"
    /\ service.signals # {}
    /\ Len(service.read) < MaxPolls
    /\ \E signal_file \in {OldestSignal(service.signals)} :
           service' =
               IF signal_file.content = "corrupted"
               THEN [service EXCEPT
                        !.signals = @ \ {signal_file},
                        !.removed = Append(@, signal_file.ctime)]
               ELSE IF signal_file.content = "no_iteration"
               THEN [service EXCEPT
                        !.read = Append(@, signal_file.ctime)]
               ELSE [service EXCEPT
                        !.read = Append(@, signal_file.ctime),
                        !.start_signal = signal_file,
                        !.pc = "execute"]
    /\ UnchangedByService

\* _execute_iteration_for_service: the iteration's configuration is
\* written and _run_local_iteration runs main(); the exit status becomes
\* the success field of the result
ExecuteIterationForService ==
    /\ service.pc = "execute"
    /\ \E env \in WorkflowEnvironments :
           main(service.start_signal.iteration, FALSE, TRUE, env)
    /\ service' =
           [service EXCEPT
               !.executed = Append(@, service.start_signal.ctime),
               !.result = [success |-> last'.completed],
               !.pc = "send"]
    /\ UNCHANGED workflow

\* _execute_iteration_for_service when the execution raises: the handler
\* returns a result with success False
ExecuteIterationForServiceRaises ==
    /\ service.pc = "execute"
    /\ service' =
           [service EXCEPT
               !.executed = Append(@, service.start_signal.ctime),
               !.result = [success |-> FALSE],
               !.pc = "send"]
    /\ UnchangedByService

\* _send_result_to_dal: iteration_{n}_result.json is written, over a file
\* of the same name if there is one
SendResultToDal ==
    /\ service.pc = "send"
    /\ \E iteration_number \in {service.start_signal.iteration} :
           service' =
               [service EXCEPT
                   !.result_files =
                       (iteration_number :>
                           [iteration |-> iteration_number,
                            result |-> service.result,
                            signal |-> service.start_signal.ctime]) @@ @,
                   !.written = Append(@, service.start_signal.ctime),
                   !.pc = "cleanup"]
    /\ UnchangedByService

\* _cleanup_signal: the processed signal file is unlinked, and the loop
\* sleeps before its next pass
CleanupSignal ==
    /\ service.pc = "cleanup"
    /\ service' =
           [service EXCEPT
               !.signals = @ \ {service.start_signal},
               !.removed = Append(@, service.start_signal.ctime),
               !.start_signal = NoSignal,
               !.pc = "check"]
    /\ UnchangedByService

\* _signal_handler: SIGINT or SIGTERM ends the loop after the current pass
SignalHandler ==
    /\ service.running
    /\ service' = [service EXCEPT !.running = FALSE]
    /\ UnchangedByService

\* a round of the closed loop: the nominal invocation
Round(N, final_training, first_only) ==
    Invocation(N, final_training, first_only, Nominal)

\* -------------------------------------------------------- specifications
\* The closed loop: rounds with any query selection, and voters who label the
\* query batches.
Next ==
    \/ \E r \in 1..(MaxRound - 1) : SubmitBatchVotes(r)
    \/ \E N \in Rounds, final_training \in BOOLEAN :
           Round(N, final_training, FALSE)

Spec == Init /\ [][Next]_vars

\* The closed loop with a labeling process that follows the format
\* documents.
NextDocumented ==
    \/ \E r \in 1..(MaxRound - 1) : SaveAsDocumented(r)
    \/ \E N \in Rounds, final_training \in BOOLEAN :
           Round(N, final_training, FALSE)

SpecDocumented == Init /\ [][NextDocumented]_vars

\* Accumulators of different rounds that run at the same time on voting
\* results that are all there, and rounds that run alone.
InitInterleaved ==
    /\ unlabeled = UnlabeledDataset
    /\ labeled = BootstrapLabeled
    /\ backup = <<>>
    /\ voting \in [1..(MaxRound - 1) -> [1..1 -> InRangeVotes]]
    /\ query = <<>>
    /\ performance = <<>>
    /\ model = <<>>
    /\ config \in [query_batch_size : {1}]
    /\ output_dir = FALSE
    /\ voting_format_doc = <<>>
    /\ saved = <<>>
    /\ accumulating = NotAccumulating
    /\ workflow = NoWorkflow
    /\ service = NoService
    /\ loader = NoLoader
    /\ last = NoInvocation

NextInterleaved ==
    \/ \E R \in AccumulatingRounds : ReadLabeledFile(R)
    \/ \E R \in AccumulatingRounds : ScanVotingResults(R)
    \/ \E R \in AccumulatingRounds : WriteBackup(R)
    \/ \E R \in AccumulatingRounds : WriteLabeled(R)
    \/ \E M \in AccumulatingRounds, final_training \in BOOLEAN :
           RoundAlone(M, final_training)

SpecInterleaved == InitInterleaved /\ [][NextInterleaved]_vars

\* run_full_workflow with max_iterations of the configuration.
InitWorkflow ==
    /\ unlabeled = UnlabeledDataset
    /\ labeled = BootstrapLabeled
    /\ backup = <<>>
    /\ voting = <<>>
    /\ query = <<>>
    /\ performance = <<>>
    /\ model = <<>>
    /\ config \in [query_batch_size : 1..MaxBatch]
    /\ output_dir = FALSE
    /\ voting_format_doc = <<>>
    /\ saved = <<>>
    /\ accumulating = NotAccumulating
    /\ workflow \in {[NoWorkflow EXCEPT !.pc = "running", !.iteration = 1,
                                         !.max_iterations = m] :
                         m \in 1..MaxRound}
    /\ service = NoService
    /\ loader = NoLoader
    /\ last = NoInvocation

NextWorkflow ==
    \/ \E r \in 1..(MaxRound - 1) : SubmitBatchVotes(r)
    \/ \E iteration \in Rounds : RunIterationReturns(iteration)
    \/ \E iteration \in Rounds : RunIterationRaises(iteration)

SpecWorkflow == InitWorkflow /\ [][NextWorkflow]_vars

\* Service mode: start signals arrive while the loop polls for them.
InitService ==
    /\ unlabeled = UnlabeledDataset
    /\ labeled = BootstrapLabeled
    /\ backup = <<>>
    /\ voting = <<>>
    /\ query = <<>>
    /\ performance = <<>>
    /\ model = <<>>
    /\ config \in [query_batch_size : 1..MaxBatch]
    /\ output_dir = FALSE
    /\ voting_format_doc = <<>>
    /\ saved = <<>>
    /\ accumulating = NotAccumulating
    /\ workflow = NoWorkflow
    /\ service = [NoService EXCEPT !.running = TRUE, !.pc = "check"]
    /\ loader = NoLoader
    /\ last = NoInvocation

NextService ==
    \/ \E n \in Rounds, content \in SignalContents :
           SendStartSignal(n, content)
    \/ CheckForStartSignal
    \/ ExecuteIterationForService
    \/ ExecuteIterationForServiceRaises
    \/ SendResultToDal
    \/ CleanupSignal
    \/ SignalHandler

SpecService == InitService /\ [][NextService]_vars

\* Non-final rounds in any order of their numbers, one at a time (no
\* votes arrive: the selection reads no label).
NextAnyOrder == \E N \in Rounds : AnyRound(N)

SpecAnyOrder == Init /\ [][NextAnyOrder]_vars

\* The accumulation side: any voting results; the accumulator reads no query
\* batch, and the selector here returns the first positions of the pool.
NextVotes ==
    \/ \E r \in 1..(MaxRound - 1) : SubmitAnyVotes(r)
    \/ \E N \in Rounds, final_training \in BOOLEAN :
           Round(N, final_training, TRUE)

SpecVotes == Init /\ [][NextVotes]_vars

\* The rounds as the server runs them: with the model of the round before
\* as --model_in when it is there, on a configuration file that parses or
\* does not; voters label the query batches.
NextServer ==
    \/ \E r \in 1..(MaxRound - 1) : SubmitBatchVotes(r)
    \/ \E N \in Rounds : RunFallbackIteration(N)
    \/ \E N \in Rounds : RunFinalTrainingIteration(N)

SpecServer == Init /\ [][NextServer]_vars

\* Evaluation over labeled datasets of every size up to MaxLabeled and of
\* one, two and three classes: valid configuration, no --model_in.
InitEvaluate ==
    /\ unlabeled = UnlabeledDataset
    /\ labeled \in LabeledSets
    /\ backup = <<>>
    /\ voting = <<>>
    /\ query = <<>>
    /\ performance = <<>>
    /\ model = <<>>
    /\ config \in [query_batch_size : 1..MaxBatch]
    /\ output_dir = FALSE
    /\ loader = NoLoader
    /\ voting_format_doc = <<>>
    /\ saved = <<>>
    /\ accumulating = NotAccumulating
    /\ workflow = NoWorkflow
    /\ service = NoService
    /\ last = NoInvocation

NextEvaluate ==
    \/ \E r \in 1..(MaxRound - 1) : SubmitBatchVotes(r)
    \/ \E N \in Rounds, final_training \in BOOLEAN,
          env \in EvaluateEnvironments :
           Invocation(N, final_training, TRUE, env)

SpecEvaluate == InitEvaluate /\ [][NextEvaluate]_vars

\* The Dataset Loader on files of every width up to MaxFeatures, label
\* column name and extension.
InitLoader ==
    /\ unlabeled = UnlabeledDataset
    /\ labeled = BootstrapLabeled
    /\ backup = <<>>
    /\ voting = <<>>
    /\ query = <<>>
    /\ performance = <<>>
    /\ model = <<>>
    /\ config \in [query_batch_size : {1}]
    /\ output_dir = FALSE
    /\ loader \in DatasetFiles
    /\ voting_format_doc = <<>>
    /\ saved = <<>>
    /\ accumulating = NotAccumulating
    /\ workflow = NoWorkflow
    /\ service = NoService
    /\ last = NoInvocation

NextLoader ==
    \/ LoadLabeledFeatures
    \/ LoadLabels
    \/ LoadUnlabeledFeatures
    \/ AppendSample

SpecLoader == InitLoader /\ [][NextLoader]_vars

\* The invocations in any environment: a project whose label column may hold
\* digits only and whose configuration may name a label_space; the voters
\* label the query batches, and the selector returns the first positions.
InitFaults ==
    /\ unlabeled = UnlabeledDataset
    /\ labeled \in {BootstrapLabeled, BootstrapNumeric}
    /\ backup = <<>>
    /\ voting = <<>>
    /\ query = <<>>
    /\ performance = <<>>
    /\ model = <<>>
    /\ config \in [query_batch_size : 1..MaxBatch]
                  \cup [query_batch_size : 1..MaxBatch,
                        label_space : {ConfigLabelSpace}]
    /\ output_dir = FALSE
    /\ loader = NoLoader
    /\ voting_format_doc = <<>>
    /\ saved = <<>>
    /\ accumulating = NotAccumulating
    /\ workflow = NoWorkflow
    /\ service = NoService
    /\ last = NoInvocation

NextFaults ==
    \/ \E r \in 1..(MaxRound - 1) : SubmitBatchVotes(r)
    \/ \E N \in Rounds, final_training \in BOOLEAN, env \in Environments :
           Invocation(N, final_training, TRUE, env)

SpecFaults == InitFaults /\ [][NextFaults]_vars

\* ================================================================ claims
\* the original indices of the query batches persisted for rounds below N
PriorBatchIndices(N) ==
    {e.original_index : e \in UNION {{query[r][i] : i \in 1..Len(query[r])} :
                                         r \in {q \in DOMAIN query : q < N}}}

\* the last invocation was a round that reached the Query Selector
SelectorRan == last.iteration >= 1 /\ ~last.final_training

\* the last invocation was a round that persisted a query batch
BatchPersisted == SelectorRan /\ last.completed

\* C1: the working pool handed to the Query Selector in round N holds no row
\* whose original index is in a query_samples_round_r.json with r < N.
ExclusionCompleteness ==
    SelectorRan =>
        \A p \in 1..Len(last.X_unlabeled) :
            last.X_unlabeled[p].row \notin PriorBatchIndices(last.iteration)

\* a round above 1 was handed a pool from which rows of two batches are gone
ExclusionWitness ==
    /\ SelectorRan /\ last.iteration = 3
    /\ {1, 2} \subseteq DOMAIN query
    /\ last.X_unlabeled # <<>>
    /\ Len(last.X_unlabeled) < Len(unlabeled)

\* C2: every persisted original_index is the image under the round's mapping
\* of a position the Query Selector returned, it is the original index of the
\* pool row at that position, and the persisted features are those of that
\* row of the original unlabeled dataset.
PersistedInOriginalSpace ==
    /\ \A r \in DOMAIN query : \A i \in 1..Len(query[r]) :
           /\ query[r][i].original_index \in 0..(Len(unlabeled) - 1)
           /\ query[r][i].features = unlabeled[query[r][i].original_index + 1]
    /\ BatchPersisted =>
           /\ last.iteration \in DOMAIN query
           /\ Len(query[last.iteration]) = Len(last.query_indices)
           /\ \A i \in 1..Len(last.query_indices) :
                  LET pos == last.query_indices[i]
                      e == query[last.iteration][i]
                  IN  /\ e.original_index = last.original_index_mapping[pos + 1]
                      /\ e.original_index = last.X_unlabeled[pos + 1].row

\* a batch was persisted from a filtered pool, at a position that is not its
\* own original index
PersistedWitness ==
    /\ BatchPersisted
    /\ \E i \in 1..Len(last.query_indices) :
           query[last.iteration][i].original_index # last.query_indices[i]

\* s is strictly ascending
Ascending(s) == \A i \in 1..(Len(s) - 1) : s[i] < s[i + 1]

\* C3: the mapping of a round that selects a batch lists in ascending order,
\* without gaps or repeats, exactly the original indices that are in no
\* query batch of rounds 1..N-1; in round 1 it is the identity.
MappingCorrectness ==
    SelectorRan =>
        LET m == last.original_index_mapping
        IN  /\ Ascending(m)
            /\ {m[p] : p \in 1..Len(m)} =
                   (0..(Len(unlabeled) - 1)) \ PriorBatchIndices(last.iteration)
            /\ Len(last.X_unlabeled) = Len(m)
            /\ last.iteration = 1 => m = [p \in 1..Len(unlabeled) |-> p - 1]

\* round 3 built its mapping with the batches of rounds 1 and 2 persisted,
\* which left the first and the last row of the dataset and a gap between
MappingWitness ==
    /\ SelectorRan /\ last.iteration = 3
    /\ {1, 2} \subseteq DOMAIN query
    /\ Len(last.original_index_mapping) = 2
    /\ last.original_index_mapping[1] = 0
    /\ last.original_index_mapping[2] = Len(unlabeled) - 1

\* C10: a non-final round whose eligible pool has at least query_batch_size
\* rows persists exactly query_batch_size entries, with pairwise distinct
\* original indices, each a row position of the original unlabeled dataset.
BatchShape ==
    (SelectorRan /\ Len(last.X_unlabeled) >= config.query_batch_size) =>
        /\ last.completed
        /\ last.iteration \in DOMAIN query
        /\ LET batch == query[last.iteration]
           IN  /\ Len(batch) = config.query_batch_size
               /\ \A i, j \in 1..Len(batch) :
                      i # j => batch[i].original_index # batch[j].original_index
               /\ \A i \in 1..Len(batch) :
                      batch[i].original_index \in 0..(Len(unlabeled) - 1)

\* a second round persisted a batch of two
BatchShapeWitness ==
    /\ BatchPersisted /\ last.iteration = 2
    /\ config.query_batch_size = 2
    /\ 1 \in DOMAIN query
    /\ Len(query[2]) = 2

\* ----------------------------------------------------------------------
\* a step in which the Label Accumulator ran: an invocation of a round above
\* 1 that is not a final-training round (voting files do not change)
AccumulatorStep ==
    /\ voting' = voting
    /\ last'.iteration >= 2
    /\ ~last'.final_training

\* C4: a second run of the Label Accumulator for the same round on the same
\* voting-result files adds no row, returns 0 and leaves the labeled file
\* as the first run left it.
DedupIdempotence ==
    \A N \in Rounds :
        LET first == accumulate_newly_labeled_samples(unlabeled, labeled, voting, N)
            second == accumulate_newly_labeled_samples(unlabeled, first.labeled,
                                                       voting, N)
        IN  /\ second.newly_added = 0
            /\ second.labeled = first.labeled
            /\ ~second.wrote

\* the accumulator of round 3 has appended rows, with voting files of both
\* earlier rounds present: a second run now meets its own rows
DedupWitness ==
    /\ last.iteration = 3 /\ ~last.final_training
    /\ last.newly_added > 0
    /\ DOMAIN voting = {1, 2}

\* the valid voting results for original index i in the files of rounds
\* below N, as (round, position) pairs
VotesFor(i, N) ==
    {rj \in UNION {{<<r, j>> : j \in 1..Len(voting[r])} :
                      r \in {q \in DOMAIN voting : q < N}} :
        LET v == voting[rj[1]][rj[2]]
        IN  /\ Has(v, "original_index") /\ Has(v, "final_label")
            /\ v.original_index = i}

\* the rows of the labeled dataset that carry the feature vector f
RowsWith(f) == {p \in 1..Len(labeled) : labeled[p].features = f}

\* no other row of the unlabeled dataset has the feature vector of row i
OnlyRowWithItsFeatures(i) ==
    \A j \in 0..(Len(unlabeled) - 1) :
        j # i => unlabeled[j + 1] # unlabeled[i + 1]

\* C5: when the same original_index occurs in more than one voting result
\* of rounds 1..N-1, the labeled dataset holds at most one row for that
\* sample (stated for the samples whose feature vector no other unlabeled
\* row shares, so that a labeled row with it is a row for that sample).
OneRowPerSample ==
    \A i \in 0..(Len(unlabeled) - 1) :
        (OnlyRowWithItsFeatures(i)
            /\ Cardinality(VotesFor(i, last.iteration)) > 1)
        => Cardinality(RowsWith(unlabeled[i + 1])) <= 1

\* a voting result the claims count: both keys present and the original
\* index a row position of the unlabeled dataset
InRangeVote(v) ==
    /\ Has(v, "original_index") /\ Has(v, "final_label")
    /\ v.original_index \in 0..(Len(unlabeled) - 1)

\* a voting result whose original index is no row position
OutOfRangeVote(v) ==
    /\ Has(v, "original_index") /\ Has(v, "final_label")
    /\ v.original_index \notin 0..(Len(unlabeled) - 1)

\* the labeled samples of the in-range voting results of rounds r..N-1, in
\* file order
RECURSIVE InRangeSamples(_, _)
InRangeSamples(r, N) ==
    IF r >= N THEN <<>>
    ELSE (IF r \in DOMAIN voting
          THEN LET votes == SelectSeq(voting[r], InRangeVote)
               IN  [j \in 1..Len(votes) |->
                       [features |-> unlabeled[votes[j].original_index + 1],
                        label |-> votes[j].final_label]]
          ELSE <<>>)
         \o InRangeSamples(r + 1, N)

\* those of them whose feature vector is not yet in the labeled dataset
ExpectedNewSamples(N) ==
    SelectSeq(InRangeSamples(1, N), LAMBDA s : RowsWith(s.features) = {})

\* C6: one run of the Label Accumulator in round N grows the labeled dataset
\* by exactly the number of voting results of rounds 1..N-1 with an in-range
\* original_index, a non-null final_label and a feature vector not already
\* in the labeled dataset, and returns that number.
GrowthByCount ==
    [][AccumulatorStep =>
          /\ Len(labeled') - Len(labeled)
                 = Len(ExpectedNewSamples(last'.iteration))
          /\ last'.newly_added = Len(ExpectedNewSamples(last'.iteration))]_vars

\* s is an initial part of t
IsPrefix(s, t) == Len(s) <= Len(t) /\ SubSeq(t, 1, Len(s)) = s

\* C7: the labeled dataset is only appended to: every row present before a
\* step is present, unchanged and at the same position, after it.
AppendOnly == [][IsPrefix(labeled, labeled')]_vars

\* rows were appended in round 2 and again in round 3
AppendWitness ==
    /\ {2, 3} \subseteq DOMAIN backup
    /\ Len(backup[2]) < Len(backup[3])
    /\ Len(backup[3]) < Len(labeled)

\* C8: a voting result whose original_index is below 0 or at or above the
\* row count is skipped: in a round that reads one, the accumulator appends
\* exactly the rows of the other, in-range voting results.
OutOfRangeSkipped ==
    [][(AccumulatorStep
           /\ \E r \in {q \in DOMAIN voting : q < last'.iteration} :
                  \E j \in 1..Len(voting[r]) : OutOfRangeVote(voting[r][j]))
       => labeled' = labeled \o ExpectedNewSamples(last'.iteration)]_vars

\* ----------------------------------------------------------------------
\* the entries of the query batches of rounds below N, as (round, position)
BatchEntries(N) ==
    UNION {{<<r, i>> : i \in 1..Len(query[r])} : r \in 1..(N - 1)}

\* every round below N has a query batch and a voting file that labels
\* exactly the samples of that batch
BatchesLabeled(N) ==
    \A r \in 1..(N - 1) :
        /\ r \in DOMAIN query
        /\ r \in DOMAIN voting
        /\ voting[r] = BatchVotes(query[r])

\* no queried sample's feature vector is that of a bootstrap row or of
\* another queried sample: none is in the labeled set when it is accumulated
FreshFeatures(N) ==
    /\ \A e \in BatchEntries(N) :
           \A p \in 1..Len(BootstrapLabeled) :
               query[e[1]][e[2]].features # BootstrapLabeled[p].features
    /\ \A e, f \in BatchEntries(N) :
           e # f => query[e[1]][e[2]].features # query[f[1]][f[2]].features

\* C9: when every round r < N has a voting file that labels exactly round
\* r's query batch of k samples, none of them in the labeled set before,
\* the labeled dataset holds bootstrap + k*(N-1) rows after round N's
\* accumulation and every labeled original index is outside round N's pool.
CumulativeGrowth ==
    [][\A N \in 2..MaxRound :
          (AccumulatorStep /\ last'.iteration = N
              /\ BatchesLabeled(N) /\ FreshFeatures(N))
          => /\ Len(labeled') = Len(BootstrapLabeled)
                                   + config.query_batch_size * (N - 1)
             /\ \A r \in 1..(N - 1) : \A i \in 1..Len(voting[r]) :
                    \A p \in 1..Len(last'.X_unlabeled) :
                        last'.X_unlabeled[p].row # voting[r][i].original_index]_vars

\* round 3 ran with the batches of rounds 1 and 2 labeled, and round 2 had
\* run before the voting file of round 1 was there
CumulativeWitness ==
    /\ SelectorRan /\ last.iteration = 3
    /\ BatchesLabeled(3) /\ FreshFeatures(3)
    /\ 2 \notin DOMAIN backup
    /\ last.newly_added = 2

\* ----------------------------------------------------------------------
\* a step that is an invocation of main() (voting files do not change)
InvocationStep == voting' = voting /\ last'.iteration >= 1

\* C11: a non-final round whose eligible pool is empty completes: it
\* persists an empty query batch, its performance and its model.
EmptyPoolSucceeds ==
    [][(InvocationStep /\ ~last'.final_training /\ last'.failed # "config"
           /\ last'.X_unlabeled = <<>>)
       => /\ last'.completed
          /\ last'.iteration \in DOMAIN query'
          /\ query'[last'.iteration] = <<>>
          /\ last'.iteration \in DOMAIN performance'
          /\ last'.iteration \in DOMAIN model']_vars

\* C12: an invocation with final_training leaves the query batch files as
\* they are, and one that completes has written performance_round_N.json
\* with final_training true and model_round_N.
FinalTrainingOutputs ==
    [][(InvocationStep /\ last'.final_training)
       => /\ query' = query
          /\ last'.completed =>
                 /\ last'.iteration \in DOMAIN performance'
                 /\ Has(performance'[last'.iteration], "final_training")
                 /\ performance'[last'.iteration].final_training
                 /\ last'.iteration \in DOMAIN model'
                 /\ model'[last'.iteration] = last'.estimator]_vars

\* a final-training run of round 2 completed after a non-final run of round
\* 2 had persisted a batch, which is still there
FinalTrainingWitness ==
    /\ last.final_training /\ last.completed /\ last.iteration = 2
    /\ 2 \in DOMAIN query /\ Len(query[2]) > 0
    /\ performance[2].final_training
    /\ 2 \in DOMAIN model

\* C13: final-training mode skips query selection only: a final-training
\* invocation of a round above 1 accumulates the voting results of the
\* earlier rounds into the labeled dataset as a non-final round would.
FinalTrainingAccumulates ==
    [][(InvocationStep /\ last'.final_training /\ last'.iteration > 1
           /\ last'.failed # "config")
       => labeled' = accumulate_newly_labeled_samples(
                         unlabeled, labeled, voting, last'.iteration).labeled]_vars

\* ----------------------------------------------------------------------
\* the round-numbered output files of round N exist after the step
OutputsOf(N, final_training) ==
    /\ N \in DOMAIN performance'
    /\ N \in DOMAIN model'
    /\ ~final_training => N \in DOMAIN query'

\* the step writes none of the round-numbered output files
NoOutputWritten ==
    query' = query /\ performance' = performance /\ model' = model

\* C14: an invocation either completes, and then all the outputs its mode
\* requires are there, or fails, and then it has written none of
\* query_samples_round_N.json, performance_round_N.json and model_round_N.
AllOrNothing ==
    [][InvocationStep =>
          IF last'.completed
          THEN OutputsOf(last'.iteration, last'.final_training)
          ELSE NoOutputWritten]_vars

\* C15: when the Label Accumulator raises, it returns 0, the labeled
\* dataset and its backups are as before the call, and the round goes on:
\* with a pool of at least query_batch_size rows it persists its outputs.
AccumulatorAbsorbs ==
    [][(AccumulatorStep /\ last'.accumulate_raised)
       => /\ last'.newly_added = 0
          /\ labeled' = labeled
          /\ backup' = backup
          /\ Len(last'.X_unlabeled) >= config.query_batch_size
                 => /\ last'.completed
                    /\ OutputsOf(last'.iteration, FALSE)
                    /\ model'[last'.iteration] = last'.estimator
                    /\ last'.estimator.fit_on = labeled]_vars

\* a round completed although its accumulator raised on one voting result
\* and dropped another one, valid and not yet in the labeled dataset
AbsorbWitness ==
    /\ last.iteration >= 2 /\ ~last.final_training
    /\ last.accumulate_raised /\ last.completed
    /\ last.iteration \in DOMAIN query
    /\ ExpectedNewSamples(last.iteration) # <<>>

\* C16: in every branch the mapping has an entry for exactly the positions
\* of the pool given to the Query Selector, and when computing the
\* exclusion set raises, the pool is the full unlabeled dataset under the
\* identity mapping and the round goes on.
DegradesToIdentity ==
    (last.iteration >= 1 /\ last.failed # "config") =>
        /\ Len(last.original_index_mapping) = Len(last.X_unlabeled)
        /\ \A i \in 1..Len(last.query_indices) :
               (last.query_indices[i] + 1) \in DOMAIN last.original_index_mapping
        /\ last.filter_raised =>
               /\ last.X_unlabeled = LoadUnlabeled(unlabeled)
               /\ last.original_index_mapping = PyRange(0, Len(unlabeled))
               /\ last.failed \in {"", "performance"}

\* round 2 could not read round 1's query batch, went on with the full
\* dataset and persisted a batch that repeats an index of round 1
DegradeWitness ==
    /\ last.iteration = 2 /\ last.filter_raised /\ last.completed
    /\ {1, 2} \subseteq DOMAIN query
    /\ \E i \in 1..Len(query[1]), j \in 1..Len(query[2]) :
           query[1][i].original_index = query[2][j].original_index

\* C17: with --model_in, the invocation fails at the load exactly when the
\* file exists and cannot be deserialized, and then writes no output of the
\* round; when the file is absent the estimator is the one fit on the train
\* split in this round, and that is the model a completed round persists.
ModelInPolicy ==
    [][(InvocationStep /\ last'.failed # "config")
       => /\ last'.failed = "model_in" <=> last'.model_in = CorruptModel
          /\ last'.failed = "model_in" => NoOutputWritten
          /\ (last'.model_in \in Rounds /\ last'.model_in \notin DOMAIN model)
                 => /\ ~last'.warm_start
                    /\ last'.estimator
                           = Fit(last'.iteration, TrainTestSplit(labeled').train)
                    /\ (last'.final_training
                           \/ Len(last'.X_unlabeled) >= config.query_batch_size)
                       /\ JsonSerializable(
                              evaluate_model_performance(
                                  FALSE, Nominal.scores,
                                  TrainTestSplit(labeled').test, config,
                                  TrainTestSplit(labeled').train))
                          => /\ last'.completed
                             /\ model'[last'.iteration] = last'.estimator]_vars

\* round 2 failed on a corrupt --model_in after round 1 had completed: the
\* outputs of round 1 are there and none of round 2
CorruptModelWitness ==
    /\ last.iteration = 2 /\ last.failed = "model_in"
    /\ last.model_in = CorruptModel
    /\ 1 \in DOMAIN model /\ 1 \in DOMAIN query
    /\ 2 \notin DOMAIN query /\ 2 \notin DOMAIN performance
    /\ 2 \notin DOMAIN model

\* round 2 was given the path of model_round_1, which round 1 had not
\* written, and completed with a cold start
AbsentModelReached ==
    /\ last.iteration = 2 /\ last.model_in = 1 /\ ~last.warm_start
    /\ last.completed /\ 1 \notin DOMAIN model

\* C18: on the warm-start path the estimator that is evaluated and queried
\* is the imported one, unchanged, and model_round_N is that same estimator.
WarmStartUnchanged ==
    [][(InvocationStep /\ last'.warm_start /\ last'.failed # "model_in")
       => /\ last'.estimator = model[last'.model_in]
          /\ last'.completed => model'[last'.iteration] = model[last'.model_in]]_vars

\* round 2 appended labels, imported the estimator round 1 fit before they
\* were there, and persisted it as model_round_2
WarmStartWitness ==
    /\ last.iteration = 2 /\ last.warm_start /\ last.completed
    /\ last.model_in = 1 /\ last.newly_added > 0
    /\ model[2] = model[1]
    /\ model[2].round = 1
    /\ Len(model[2].fit_on) < Len(labeled)

\* C19: an invocation whose configuration file is missing or is not valid
\* JSON writes nothing: no output directory, no labeled dataset or backup,
\* no output of the round.
ConfigFailureWritesNothing ==
    [][(InvocationStep /\ last'.failed = "config")
       => /\ output_dir' = output_dir
          /\ labeled' = labeled /\ backup' = backup
          /\ NoOutputWritten]_vars

\* the first invocation of the project failed on its configuration file and
\* there is no output directory
ConfigFailureWitness ==
    /\ last.failed = "config" /\ last.iteration = 1
    /\ ~output_dir
    /\ query = <<>> /\ performance = <<>> /\ model = <<>>

\* the zeroed metrics with the error string
Zeroed(metrics) ==
    /\ Has(metrics, "error")
    /\ metrics.accuracy = 0 /\ metrics.precision = 0
    /\ metrics.recall = 0 /\ metrics.f1_score = 0

\* C20: when computing the metrics raises, the Evaluator yields the zeroed
\* metrics with an error string and the round goes on: it persists them,
\* the model and, when not final and the pool has query_batch_size rows,
\* the query batch.
DegradedEvaluation ==
    [][(InvocationStep /\ last'.metrics_raised
           /\ last'.failed \notin {"config", "model_in"}
           /\ (last'.final_training
                  \/ Len(last'.X_unlabeled) >= config.query_batch_size))
       => /\ last'.completed
          /\ OutputsOf(last'.iteration, last'.final_training)
          /\ Zeroed(performance'[last'.iteration])
          /\ model'[last'.iteration] = last'.estimator]_vars

\* a non-final round persisted zeroed metrics, its model and its batch
DegradedWitness ==
    /\ last.metrics_raised /\ last.completed /\ ~last.final_training
    /\ last.iteration \in DOMAIN query
    /\ Zeroed(performance[last.iteration])
    /\ last.iteration \in DOMAIN model

\* ----------------------------------------------------------------------
\* the fields of performance_round_N.json
PerformanceFieldNames ==
    {"accuracy", "precision", "recall", "f1_score", "test_samples",
     "training_samples", "label_space", "average_strategy", "timestamp",
     "iso_timestamp", "final_training"}

\* C21: the performance_round_N.json a round persists, a round of zeroed
\* metrics included, has every one of the eleven fields.
PerformanceFields ==
    \A N \in DOMAIN performance :
        performance[N] # TruncatedJson
            => PerformanceFieldNames \subseteq DOMAIN performance[N]

\* C22: round N trains and evaluates on the labeled dataset as it stands
\* after round N's accumulation: the rows loaded are the labeled file the
\* accumulator left, the rows it appended included, and the train and test
\* rows and the rows the estimator is fit on are taken from them.
TrainsOnAccumulated ==
    [][(AccumulatorStep /\ last'.failed \notin {"config", "split"})
       => /\ last'.X_labeled = labeled'
          /\ Len(labeled') = Len(labeled) + last'.newly_added
          /\ \A i \in 1..last'.newly_added :
                 labeled'[Len(labeled) + i] = last'.X_labeled[Len(labeled) + i]
          /\ last'.X_train = TrainTestSplit(labeled').train
          /\ last'.X_test = TrainTestSplit(labeled').test
          /\ last'.warm_start \/ last'.estimator.fit_on = last'.X_train]_vars

\* a round appended rows and trained on a dataset that holds them
TrainsOnAccumulatedWitness ==
    /\ last.iteration >= 2 /\ ~last.final_training
    /\ last.newly_added > 0 /\ last.completed
    /\ Len(last.X_labeled) = Len(BootstrapLabeled) + last.newly_added
    /\ last.estimator.fit_on = last.X_labeled

QueryImmutable ==
    [][\A N \in DOMAIN query :
          N \in DOMAIN query' /\ query'[N] = query[N]]_vars

\* C25: no invocation writes the unlabeled dataset file; the working pool
\* of an invocation holds rows of the file, each at the position the index
\* mapping gives, and is shorter than the file once rows are filtered out.
UnlabeledNeverWritten ==
    [][/\ unlabeled' = unlabeled
       /\ (InvocationStep /\ last'.failed # "config")
              => /\ Len(last'.X_unlabeled) <= Len(unlabeled')
                 /\ \A i \in 1..Len(last'.X_unlabeled) :
                        last'.X_unlabeled[i].features
                            = unlabeled'[last'.original_index_mapping[i] + 1]]_vars

\* an invocation worked on a filtered pool, shorter than the file it left
\* alone
UnlabeledWitness ==
    /\ last.iteration >= 2 /\ last.completed
    /\ Len(last.X_unlabeled) < Len(unlabeled)
    /\ unlabeled = UnlabeledDataset

SplitDone == last.iteration >= 1 /\ last.failed \notin {"config", "split"}

\* the least t with t >= n / 5, which is ceil(0.2 * n)
Ceil20Percent(n) == CHOOSE t \in 0..n : 5 * t >= n /\ 5 * (t - 1) < n

\* C27: above 10 labeled rows the train and the test rows are two parts of
\* the labeled rows, ceil(0.2 * n) of them test rows; up to 10 rows both
\* are all the labeled rows; the counts a round reports are their sizes.
SplitCounts ==
    SplitDone =>
        /\ IF Len(last.X_labeled) > 10
           THEN /\ Len(last.X_test) = Ceil20Percent(Len(last.X_labeled))
                /\ Len(last.X_train)
                       = Len(last.X_labeled) - Len(last.X_test)
                /\ last.X_train \o last.X_test = last.X_labeled
           ELSE last.X_train = last.X_labeled /\ last.X_test = last.X_labeled
        /\ (last.completed /\ ~last.metrics_raised)
               => /\ performance[last.iteration].test_samples
                         = Len(last.X_test)
                  /\ performance[last.iteration].training_samples
                         = Len(last.X_train)

\* a round split eleven labeled rows in eight and three and reported so
SplitWitness ==
    /\ last.completed /\ ~last.metrics_raised
    /\ Len(last.X_labeled) = 11
    /\ performance[last.iteration].test_samples = 3
    /\ performance[last.iteration].training_samples = 8

\* a round of ten labeled rows trained and tested on all ten
NoSplitWitness ==
    /\ last.completed /\ ~last.metrics_raised
    /\ Len(last.X_labeled) = 10
    /\ performance[last.iteration].test_samples = 10
    /\ performance[last.iteration].training_samples = 10

\* C28: the average_strategy a round reports is 'binary' when its test rows
\* carry exactly two distinct labels and 'weighted' for any other number.
BinaryIffTwoLabels ==
    (last.completed /\ ~last.metrics_raised)
        => (performance[last.iteration].average_strategy = "binary"
               <=> Cardinality(UniqueLabels(last.X_test)) = 2)

\* the four metrics of a performance file
MetricNames == {"accuracy", "precision", "recall", "f1_score"}

LoaderShapes ==
    loader.ext = ".csv" =>
        /\ loader.X_labeled # NotLoaded
               => loader.X_labeled.columns = FeatureColumns(loader.F)
        /\ loader.X_unlabeled # NotLoaded
               => loader.X_unlabeled.columns = FeatureColumns(loader.F)
        /\ loader.y_labeled # NotLoaded
               => loader.y_labeled.columns
                      = <<loader.labeled_columns[loader.F + 1]>>

\* ----------------------------------------------------------------------
\* the original indices of a query batch file
BatchIndices(batch) == {batch[i].original_index : i \in 1..Len(batch)}

\* C31: no original index is in the query batch files of two rounds.
NoIndexQueriedTwice ==
    \A r, s \in DOMAIN query :
        r # s => BatchIndices(query[r]) \cap BatchIndices(query[s]) = {}

\* the votes saved for round r where round r's format document says
DocumentedVotes(r) ==
    IF r \notin DOMAIN voting_format_doc THEN <<>>
    ELSE IF voting_format_doc[r] \in DOMAIN saved
         THEN saved[voting_format_doc[r]]
    ELSE IF voting_format_doc[r] = VotingResultsPath(r) /\ r \in DOMAIN voting
         THEN voting[r]
    ELSE <<>>

\* C32: the votes saved at the path round r's format document names are
\* read by the accumulator of the rounds after r: their samples are in the
\* labeled dataset, with the voted labels, once such a round has
\* accumulated.
DocumentedVotesAccumulated ==
    [][(AccumulatorStep /\ last'.failed # "config")
       => \A r \in 1..(last'.iteration - 1) :
              \A i \in 1..Len(DocumentedVotes(r)) :
                  \E j \in 1..Len(labeled') :
                     /\ labeled'[j].features
                            = unlabeled[DocumentedVotes(r)[i].original_index + 1]
                     /\ labeled'[j].label = DocumentedVotes(r)[i].final_label]_vars

\* C33: building the train and test parts aborts no round, whatever the
\* labels of a labeled set of more than 10 rows.
SplitNeverAborts == last.failed # "split"

\* C34: the model a completed final-training round persists was fit by
\* that round on every row of the labeled dataset.
FinalModelFitOnAll ==
    (last.final_training /\ last.completed)
        => model[last.iteration] = Fit(last.iteration, labeled)

\* C35: every row the accumulator of round N appends is the row of the
\* unlabeled dataset at an original index of a query batch of a round
\* before N.
PromotedWereQueried ==
    [][AccumulatorStep
       => \A j \in (Len(labeled) + 1)..Len(labeled') :
              \E r \in DOMAIN query :
                  /\ r < last'.iteration
                  /\ \E idx \in BatchIndices(query[r]) :
                         unlabeled[idx + 1] = labeled'[j].features]_vars

\* C36: an append leaves the columns of the labeled file as they were, and
\* every row of the file, old or new, has a value in the last column, the
\* one the loader reads as the label.
SchemaPreserved ==
    [][/\ loader'.labeled_df.columns = loader.labeled_df.columns
       /\ \A r \in 1..Len(loader'.labeled_df.rows) :
              loader'.labeled_df.rows[r][Len(loader'.labeled_df.columns)]
                  # "NaN"]_vars

\* ----------------------------------------------------------------------
\* a step of a round that runs alone, accumulates, and whose number is not
\* below that of any accumulator that has run
RecoveryStep ==
    /\ accumulating' = accumulating
    /\ last'.iteration >= 2 /\ ~last'.final_training
    /\ \A R \in AccumulatingRounds :
           accumulating.proc[R].pc = "done" => R <= last'.iteration

\* C37: the rows that stale writes of interleaved accumulators removed
\* from the labeled dataset are in it again after the accumulation of the
\* next round that runs alone.
DroppedRowsRecovered ==
    [][RecoveryStep
       => \A row \in accumulating.dropped : row \in Rows(labeled')]_vars

\* C38: run_full_workflow starts iterations 1, 2, ... in this order, at
\* most max_iterations of them, and none after an iteration that has
\* failed, by an exception or by a result with success false.
WorkflowStopsOnFailure ==
    /\ \A j \in 1..Len(workflow.started) : workflow.started[j] = j
    /\ Len(workflow.started) <= workflow.max_iterations
    /\ \A j \in 1..Len(workflow.results) :
           ~workflow.results[j].success => Len(workflow.started) = j

\* how many times the loop did something for the signal of this ctime
Times(history, ctime) ==
    Cardinality({j \in 1..Len(history) : history[j] = ctime})

\* C39: in service mode start signals are handled one at a time, oldest
\* first: a signal the loop has read is executed once, then its result
\* file is written once, then its file is removed, before the loop reads
\* again, and a signal whose file is gone was executed exactly once and
\* has its result written.
EachSignalExecutedOnce ==
    /\ \A j \in 1..Len(service.read), k \in 1..Len(service.read) :
           j < k => service.read[j] < service.read[k]
    /\ \A ctime \in 1..MaxSignals :
           /\ Times(service.removed, ctime) <= Times(service.written, ctime)
           /\ Times(service.written, ctime) <= Times(service.executed, ctime)
           /\ Times(service.executed, ctime) <= Times(service.read, ctime)
           /\ Times(service.read, ctime) <= 1
           /\ Times(service.removed, ctime) = 1 =>
                  /\ Times(service.executed, ctime) = 1
                  /\ Times(service.written, ctime) = 1
           /\ (service.pc = "check" /\ Times(service.read, ctime) = 1) =>
                  Times(service.removed, ctime) = 1

====
